---- MODULE Spec2Model ----
(***************************************************************************)
(* Model of the configuration module (config/settings.py) and of the       *)
(* Firebase client singleton (infrastructure/firebase_client.py).          *)
(*                                                                         *)
(* Fractions (0.25, 0.5, 1.0 ...) are integers in hundredths: 1.0 is 100.  *)
(* Python values that may be of the wrong type are tagged records          *)
(* [t |-> type, v |-> value].  The interpreter runs with assertions        *)
(* enabled (the default, __debug__ = True).                                *)
(***************************************************************************)
EXTENDS Integers, Sequences, FiniteSets, TLC

\* ------------------------------------------------------------- bounds
\* longest enabled_platforms list the inputs enumerate
MaxPlatforms == 3
\* number of callers (threads) that construct FirebaseManager()
NumCallers == 2

\* ---------------------------------------------------------- constants
\* the float 1.0 in the range checks, in hundredths
One == 100
\* logging.DEBUG and logging.INFO
DEBUG == 10
INFO == 20

VARIABLES
    environ,      \* os.environ: a function from the names that are set
    files,        \* the paths that exist on the local filesystem
    settings,     \* the Settings object
    lastOp,       \* the Settings operation that acted last
    returned,     \* what the last validate() returned: "True", "False", "none"
    raised,       \* the exception the last validate() propagated, or "none"
    log,          \* the diagnostics the last operation emitted
    probed,       \* whether the last validate() stat'ed the credentials file
    instance,     \* FirebaseManager._instance (0 is None)
    objects,      \* number of FirebaseManager objects ever created
    initialized,  \* _initialized of each object
    db,           \* _db of each object (0 is None)
    apps,         \* whether firebase_admin._apps is non-empty
    initCalls,    \* number of executions of _initialize_firebase
    initFailed,   \* objects whose _initialize_firebase ended in a failure
    pc,           \* each caller's position in FirebaseManager()
    self          \* each caller's local reference (0 before __new__ returns)

settingsVars == <<settings, lastOp, returned, raised, log, probed>>
firebaseVars == <<instance, objects, initialized, db, apps, initCalls, initFailed, pc, self>>
vars == <<environ, files, settings, lastOp, returned, raised, log, probed,
          instance, objects, initialized, db, apps, initCalls, initFailed, pc, self>>

\* ------------------------------------------------------ Python values
Num(n) == [t |-> "num", v |-> n]
BadNum == [t |-> "str", v |-> 0]
NoneNum == [t |-> "none", v |-> 0]
Path(p) == [t |-> "str", v |-> p]
NonePath == [t |-> "none", v |-> ""]
List(q) == [t |-> "list", v |-> q]
NoneList == [t |-> "none", v |-> <<>>]

\* os.getenv(name, default)
getenv(env, name, default) == IF name \in DOMAIN env THEN env[name] ELSE default

\* ----------------------------------------------------- configuration
TradingPlatform == <<"binance", "coinbase", "kraken", "ftx", "deribit">>

DefaultCredentialsPath == "./config/firebase-creds.json"
AltCredentialsPath == "/run/secrets/firebase.json"

FirebaseConfig(env) ==
    [project_id |-> getenv(env, "FIREBASE_PROJECT_ID", "trading-ecosystem-optimizer"),
     credentials_path |-> Path(getenv(env, "FIREBASE_CREDENTIALS_PATH", DefaultCredentialsPath)),
     collections |-> [market_states |-> "market_synthesis_states",
                      performance_metrics |-> "historical_performance",
                      allocations |-> "resource_allocations",
                      system_logs |-> "ecosystem_logs"]]

DataSynthesisConfig ==
    [windows_seconds |-> <<300, 900, 3600, 7200, 21600>>,
     volatility_lookback |-> 100,
     correlation_threshold |-> 70,
     min_liquidity_usd |-> 1000000,
     n_components_pca |-> 5,
     cluster_count |-> 8]

RiskConfig ==
    [max_allocation_per_platform |-> Num(25),
     max_drawdown_threshold |-> Num(15),
     var_confidence_level |-> Num(95),
     max_correlation_exposure |-> Num(60)]

\* self.debug_mode = self.environment == "development"
DebugModeMutant(environment) == environment # "production"
DebugMode(environment) == environment = "development"

\* logging.DEBUG if self.debug_mode else logging.INFO
LogLevel(debug_mode) == IF debug_mode THEN DEBUG ELSE INFO

\* Settings.__init__: the object a construction under environment env yields
NewSettings(env) ==
    LET environment == getenv(env, "ENVIRONMENT", "development")
        debug_mode == DebugMode(environment)
    IN  [environment |-> environment,
         debug_mode |-> debug_mode,
         firebase |-> FirebaseConfig(env),
         data_synthesis |-> DataSynthesisConfig,
         risk |-> RiskConfig,
         enabled_platforms |-> List(SubSeq(TradingPlatform, 1, 3)),
         metrics_update_interval_sec |-> 60,
         reallocation_check_interval_sec |-> 300,
         log_level |-> LogLevel(debug_mode)]

\* ---------------------------------------------------------- validate
\* Each assert yields "pass", "AssertionError" or, for an operand that
\* cannot be compared with a number or has no len(), "TypeError".

\* assert 0 < self.risk.max_allocation_per_platform <= 1.0
AssertAllocationMutant(risk) ==
    LET x == risk.max_allocation_per_platform
    IN  IF x.t # "num" THEN "TypeError"
        ELSE IF 0 < x.v /\ x.v < One THEN "pass" ELSE "AssertionError"
AssertAllocation(risk) ==
    LET x == risk.max_allocation_per_platform
    IN  IF x.t # "num" THEN "TypeError"
        ELSE IF 0 < x.v /\ x.v <= One THEN "pass" ELSE "AssertionError"

\* assert 0 < self.risk.max_drawdown_threshold < 1.0
AssertDrawdown(risk) ==
    LET x == risk.max_drawdown_threshold
    IN  IF x.t # "num" THEN "TypeError"
        ELSE IF 0 < x.v /\ x.v < One THEN "pass" ELSE "AssertionError"

\* assert 0.5 <= self.risk.var_confidence_level < 1.0
AssertVar(risk) ==
    LET x == risk.var_confidence_level
    IN  IF x.t # "num" THEN "TypeError"
        ELSE IF One <= 2 * x.v /\ x.v < One THEN "pass" ELSE "AssertionError"

\* assert len(self.enabled_platforms) >= 2, "Need at least 2 platforms ..."
AssertPlatforms(platforms) ==
    IF platforms.t # "list" THEN "TypeError"
    ELSE IF Len(platforms.v) >= 2 THEN "pass" ELSE "AssertionError"

\* os.path.exists(path): stat's the path; a path of the wrong type is a
\* TypeError raised before any file is touched
os_path_exists(path, fs) ==
    IF path.t # "str" THEN "TypeError"
    ELSE IF path.v \in fs THEN "True" ELSE "False"

Diag(level, msg) == [level |-> level, msg |-> msg]

\* the credentials check of the try block
CredentialsCheckMutant(s, fs) ==
    LET e == os_path_exists(s.firebase.credentials_path, fs)
    IN  IF e = "TypeError"
        THEN [exc |-> "TypeError", msg |-> "stat: path", log |-> <<>>, probed |-> FALSE]
        ELSE IF e = "True"
        THEN [exc |-> "none", msg |-> "",
              log |-> <<Diag("info", "Firebase credentials found")>>, probed |-> TRUE]
        ELSE [exc |-> "FileNotFoundError", msg |-> "credentials",
              log |-> <<Diag("warning", "Firebase credentials not found")>>, probed |-> TRUE]
CredentialsCheck(s, fs) ==
    LET e == os_path_exists(s.firebase.credentials_path, fs)
    IN  IF e = "TypeError"
        THEN [exc |-> "TypeError", msg |-> "stat: path", log |-> <<>>, probed |-> FALSE]
        ELSE IF e = "True"
        THEN [exc |-> "none", msg |-> "",
              log |-> <<Diag("info", "Firebase credentials found")>>, probed |-> TRUE]
        ELSE [exc |-> "none", msg |-> "",
              log |-> <<Diag("warning", "Firebase credentials not found")>>, probed |-> TRUE]

Raise(exc, msg) == [exc |-> exc, msg |-> msg, log |-> <<>>, probed |-> FALSE]

\* the body of the try block, statement by statement
TryBlockMutant(s, fs) ==
    LET c == CredentialsCheck(s, fs)
    IN  IF c.exc # "none" THEN c
        ELSE IF AssertAllocation(s.risk) # "pass"
        THEN [c EXCEPT !.exc = AssertAllocation(s.risk)]
        ELSE IF AssertDrawdown(s.risk) # "pass"
        THEN [c EXCEPT !.exc = AssertDrawdown(s.risk)]
        ELSE IF AssertVar(s.risk) # "pass"
        THEN [c EXCEPT !.exc = AssertVar(s.risk)]
        ELSE IF AssertPlatforms(s.enabled_platforms) # "pass"
        THEN [c EXCEPT !.exc = AssertPlatforms(s.enabled_platforms),
                       !.msg = "Need at least 2 platforms for optimization"]
        ELSE c
TryBlock(s, fs) ==
    IF AssertAllocation(s.risk) # "pass" THEN Raise(AssertAllocation(s.risk), "")
    ELSE IF AssertDrawdown(s.risk) # "pass" THEN Raise(AssertDrawdown(s.risk), "")
    ELSE IF AssertVar(s.risk) # "pass" THEN Raise(AssertVar(s.risk), "")
    ELSE IF AssertPlatforms(s.enabled_platforms) = "AssertionError"
    THEN Raise("AssertionError", "Need at least 2 platforms for optimization")
    ELSE IF AssertPlatforms(s.enabled_platforms) # "pass"
    THEN Raise(AssertPlatforms(s.enabled_platforms), "object has no len()")
    ELSE CredentialsCheck(s, fs)

\* except (AssertionError, Exception): every exception the checks raise
\* is an Exception
ExceptClauseMutant(exc) == exc \in {"AssertionError"}
ExceptClause(exc) == exc \in {"AssertionError", "TypeError", "FileNotFoundError"}

\* Settings.validate as a function of the object and the filesystem
ValidateOutcome(s, fs) ==
    LET b == TryBlock(s, fs)
    IN  IF b.exc = "none"
        THEN [ret |-> "True", raised |-> "none", log |-> b.log, probed |-> b.probed]
        ELSE IF ExceptClause(b.exc)
        THEN [ret |-> "False", raised |-> "none",
              log |-> b.log \o <<Diag("error", b.msg)>>, probed |-> b.probed]
        ELSE [ret |-> "none", raised |-> b.exc, log |-> b.log, probed |-> b.probed]

\* ------------------------------------------------------------- inputs
NoEnv == [n \in {} |-> ""]
EnvironInputs ==
    { (IF e = "" THEN NoEnv ELSE "ENVIRONMENT" :> e) @@
      (IF p = "" THEN NoEnv ELSE "FIREBASE_CREDENTIALS_PATH" :> p) :
        e \in {"", "development", "Development", "production"},
        p \in {"", AltCredentialsPath} }
FilesInputs == SUBSET {DefaultCredentialsPath, AltCredentialsPath}
AllocationInputs == {Num(0), Num(25), Num(100), Num(150), BadNum}
DrawdownInputs == {Num(0), Num(15), Num(100), BadNum}
VarInputs == {Num(49), Num(50), Num(95), Num(100), NoneNum}
CorrelationInputs == {Num(0), Num(60), Num(150)}
PlatformInputs ==
    {List(SubSeq(TradingPlatform, 1, n)) : n \in 0..MaxPlatforms} \cup {NoneList}

\* the attributes of a constructed Settings object are plain, assignable
\* attributes: the object after its callers have set the fields validate reads
AssignedSettings(env, a, d, v, c, p, cp) ==
    [NewSettings(env) EXCEPT !.risk = [max_allocation_per_platform |-> a,
                                       max_drawdown_threshold |-> d,
                                       var_confidence_level |-> v,
                                       max_correlation_exposure |-> c],
                             !.enabled_platforms = p,
                             !.firebase.credentials_path = cp]

Callers == 1..NumCallers
Objects == 1..NumCallers

\* the class attributes of FirebaseManager before any construction
InitFirebase ==
    /\ instance = 0
    /\ objects = 0
    /\ initialized = [o \in Objects |-> FALSE]
    /\ db = [o \in Objects |-> 0]
    /\ apps = FALSE
    /\ initCalls = 0
    /\ initFailed = {}
    /\ pc = [t \in Callers |-> "idle"]
    /\ self = [t \in Callers |-> 0]

InitIdle ==
    /\ lastOp = "none"
    /\ returned = "none"
    /\ raised = "none"
    /\ log = <<>>
    /\ probed = FALSE

\* a Settings object in any state its callers can put it in
Init ==
    /\ environ \in EnvironInputs
    /\ files \in FilesInputs
    /\ \E a \in AllocationInputs, d \in DrawdownInputs, v \in VarInputs,
          c \in CorrelationInputs, p \in PlatformInputs :
          \E cp \in {FirebaseConfig(environ).credentials_path, NonePath} :
             settings = AssignedSettings(environ, a, d, v, c, p, cp)
    /\ InitIdle
    /\ InitFirebase

\* the state after "from config.settings import settings"
InitImported ==
    /\ environ \in EnvironInputs
    /\ files \in FilesInputs
    /\ settings = NewSettings(environ)
    /\ InitIdle
    /\ InitFirebase

\* ------------------------------------------------- Settings operations
\* settings = Settings()
Settings_init ==
    /\ settings' = NewSettings(environ)
    /\ lastOp' = "init"
    /\ returned' = "none"
    /\ raised' = "none"
    /\ log' = <<>>
    /\ probed' = FALSE
    /\ UNCHANGED <<environ, files>>
    /\ UNCHANGED firebaseVars

\* a validate() that clamps an over-large allocation instead of only reporting it
validateMutant ==
    LET o == ValidateOutcome(settings, files)
        x == settings.risk.max_allocation_per_platform
    IN  /\ settings' = IF x.t = "num" /\ x.v > One
                       THEN [settings EXCEPT !.risk.max_allocation_per_platform = Num(One)]
                       ELSE settings
        /\ lastOp' = "validate"
        /\ returned' = o.ret
        /\ raised' = o.raised
        /\ log' = o.log
        /\ probed' = o.probed
        /\ UNCHANGED <<environ, files>>
        /\ UNCHANGED firebaseVars

\* settings.validate()
validate ==
    LET o == ValidateOutcome(settings, files)
    IN  /\ lastOp' = "validate"
        /\ returned' = o.ret
        /\ raised' = o.raised
        /\ log' = o.log
        /\ probed' = o.probed
        /\ UNCHANGED <<environ, files, settings>>
        /\ UNCHANGED firebaseVars

Next == Settings_init \/ validate

Spec == Init /\ [][Next]_vars

\* ------------------------------------------- FirebaseManager() steps
\* a caller starts evaluating FirebaseManager()
Call(t) ==
    /\ pc[t] = "idle"
    /\ pc' = [pc EXCEPT ![t] = "new"]
    /\ UNCHANGED <<instance, objects, initialized, db, apps, initCalls, initFailed, self>>
    /\ UNCHANGED <<environ, files>>
    /\ UNCHANGED settingsVars

\* __new__: if cls._instance is None
NoInstance(i) == i = 0

New_check(t) ==
    /\ pc[t] = "new"
    /\ pc' = [pc EXCEPT ![t] = IF NoInstance(instance) THEN "new_create" ELSE "new_return"]
    /\ UNCHANGED <<instance, objects, initialized, db, apps, initCalls, initFailed, self>>
    /\ UNCHANGED <<environ, files>>
    /\ UNCHANGED settingsVars

\* __new__: cls._instance = super(FirebaseManager, cls).__new__(cls)
New_create(t) ==
    /\ pc[t] = "new_create"
    /\ objects < NumCallers
    /\ objects' = objects + 1
    /\ instance' = objects + 1
    /\ pc' = [pc EXCEPT ![t] = "new_return"]
    /\ UNCHANGED <<initialized, db, apps, initCalls, initFailed, self>>
    /\ UNCHANGED <<environ, files>>
    /\ UNCHANGED settingsVars

\* __new__: return cls._instance, which __init__ receives as self
New_return(t) ==
    /\ pc[t] = "new_return"
    /\ self' = [self EXCEPT ![t] = instance]
    /\ pc' = [pc EXCEPT ![t] = "init"]
    /\ UNCHANGED <<instance, objects, initialized, db, apps, initCalls, initFailed>>
    /\ UNCHANGED <<environ, files>>
    /\ UNCHANGED settingsVars

\* __init__: if not self._initialized
NeedsInitMutant(o) == TRUE
NeedsInit(o) == ~initialized[o]

Init_check(t) ==
    /\ pc[t] = "init"
    /\ pc' = [pc EXCEPT ![t] = IF NeedsInit(self[t]) THEN "initialize" ELSE "done"]
    /\ UNCHANGED <<instance, objects, initialized, db, apps, initCalls, initFailed, self>>
    /\ UNCHANGED <<environ, files>>
    /\ UNCHANGED settingsVars

\* __init__: self._initialize_firebase().  When no app exists yet the
\* credentials at settings.firebase.credentials_path are loaded and the app
\* is created, which fails when the file is missing and may fail on the
\* network; a failure is caught and logged inside the method, which then
\* returns with _db unset.  On success _db holds the connection handle.
initialize_firebase(t) ==
    /\ pc[t] = "initialize"
    /\ initCalls' = initCalls + 1
    /\ \E network \in BOOLEAN :
          LET ok == apps \/ (os_path_exists(settings.firebase.credentials_path, files) = "True"
                            /\ network)
          IN  /\ apps' = (apps \/ ok)
              /\ db' = IF ok THEN [db EXCEPT ![self[t]] = initCalls + 1] ELSE db
              /\ initFailed' = IF ok THEN initFailed \ {self[t]} ELSE initFailed \cup {self[t]}
    /\ pc' = [pc EXCEPT ![t] = "mark"]
    /\ UNCHANGED <<instance, objects, initialized, self>>
    /\ UNCHANGED <<environ, files>>
    /\ UNCHANGED settingsVars

\* __init__: self._initialized = True
Init_mark(t) ==
    /\ pc[t] = "mark"
    /\ initialized' = [initialized EXCEPT ![self[t]] = TRUE]
    /\ pc' = [pc EXCEPT ![t] = "done"]
    /\ UNCHANGED <<instance, objects, db, apps, initCalls, initFailed, self>>
    /\ UNCHANGED <<environ, files>>
    /\ UNCHANGED settingsVars

Step(t) ==
    \/ Call(t)
    \/ New_check(t)
    \/ New_create(t)
    \/ New_return(t)
    \/ Init_check(t)
    \/ initialize_firebase(t)
    \/ Init_mark(t)

\* callers on threads: any caller may take the next step
NextConcurrent == \E t \in Callers : Step(t)

SpecConcurrent == InitImported /\ [][NextConcurrent]_vars

\* callers one after the other: a construction runs to its end before the
\* next one starts
Quiet(t) == \A u \in Callers \ {t} : pc[u] \in {"idle", "done"}

NextSequential == \E t \in Callers : Quiet(t) /\ Step(t)

SpecSequential == InitImported /\ [][NextSequential]_vars

\* ------------------------------------------------------------- claims
Risk == settings.risk
WellFormed ==
    /\ Risk.max_allocation_per_platform.t = "num"
    /\ Risk.max_drawdown_threshold.t = "num"
    /\ Risk.var_confidence_level.t = "num"
    /\ settings.enabled_platforms.t = "list"
    /\ settings.firebase.credentials_path.t = "str"

AllocationInRange ==
    Risk.max_allocation_per_platform.v > 0 /\ Risk.max_allocation_per_platform.v <= 100
DrawdownInRange ==
    Risk.max_drawdown_threshold.v > 0 /\ Risk.max_drawdown_threshold.v < 100
VarInRange ==
    Risk.var_confidence_level.v >= 50 /\ Risk.var_confidence_level.v < 100
CorrelationInRange ==
    Risk.max_correlation_exposure.v > 0 /\ Risk.max_correlation_exposure.v <= 100
EnoughPlatforms == Len(settings.enabled_platforms.v) >= 2

\* C1: on a Settings object with well-formed fields validate() returns True
\* exactly when 0 < allocation <= 1.0, 0 < drawdown < 1.0, 0.5 <= VaR < 1.0
\* and at least 2 platforms are enabled.
C1_ValidateIffFourChecks ==
    (lastOp = "validate" /\ WellFormed) =>
        (returned = "True" <=>
            (AllocationInRange /\ DrawdownInRange /\ VarInRange /\ EnoughPlatforms))

\* the accepted endpoints: allocation 1.0, VaR 0.5, two platforms
C1_Witness ==
    /\ lastOp = "validate"
    /\ WellFormed
    /\ Risk.max_allocation_per_platform = Num(100)
    /\ Risk.var_confidence_level = Num(50)
    /\ Len(settings.enabled_platforms.v) = 2
    /\ returned = "True"

\* C2: validate() returns True only if all four RiskLimits bounds hold,
\* max correlation exposure in (0,1] among them.
C2_ValidOnlyIfFourRiskBounds ==
    (lastOp = "validate" /\ returned = "True") =>
        (AllocationInRange /\ DrawdownInRange /\ VarInRange /\ CorrelationInRange)

\* C5: validate() never propagates an exception; it returns a boolean, and
\* on an object with a malformed field it logs one error and returns False.
C5_ValidateNeverRaises ==
    lastOp = "validate" =>
        /\ raised = "none"
        /\ returned \in {"True", "False"}
        /\ ~WellFormed =>
              /\ returned = "False"
              /\ Len(log) > 0
              /\ log[Len(log)].level = "error"

\* a non-numeric risk bound, or platforms without a length behind passing bounds
C5_Witness ==
    /\ lastOp = "validate"
    /\ returned = "False"
    /\ \/ Risk.max_allocation_per_platform = BadNum
       \/ /\ AllocationInRange /\ DrawdownInRange /\ VarInRange
          /\ Risk.var_confidence_level.t = "num"
          /\ Risk.max_allocation_per_platform.t = "num"
          /\ Risk.max_drawdown_threshold.t = "num"
          /\ settings.enabled_platforms = NoneList

\* C7: whether the credentials file exists never changes what validate()
\* returns: on the same object every filesystem gives the same result.
C7_CredentialsFileDoesNotAffectResult ==
    lastOp = "validate" =>
        \A fs \in FilesInputs : ValidateOutcome(settings, fs).ret = returned

\* valid settings validated with the credentials file missing
C7_Witness ==
    /\ lastOp = "validate"
    /\ returned = "True"
    /\ settings.firebase.credentials_path.v \notin files
    /\ log = <<Diag("warning", "Firebase credentials not found")>>

\* C8: a validate() call, whatever it returns, leaves every field of the
\* Settings object as it was.
C8_ValidateReadOnly == [][lastOp' = "validate" => settings' = settings]_vars

\* an out-of-range object that validate() has rejected
C8_Witness ==
    /\ lastOp = "validate"
    /\ returned = "False"
    /\ Risk.max_allocation_per_platform = Num(150)

\* C9: a constructed Settings has debug_mode true iff ENVIRONMENT (unset
\* meaning "development") is exactly "development", log level DEBUG iff
\* debug_mode, and the platforms binance, coinbase, kraken.
C9_ConstructionDerivesFlags ==
    lastOp = "init" =>
        LET e == IF "ENVIRONMENT" \in DOMAIN environ
                 THEN environ["ENVIRONMENT"] ELSE "development"
        IN  /\ settings.environment = e
            /\ settings.debug_mode <=> (e = "development")
            /\ settings.log_level = (IF settings.debug_mode THEN 10 ELSE 20)
            /\ settings.enabled_platforms = List(<<"binance", "coinbase", "kraken">>)

\* construction with no environment variable set
C9_Witness ==
    /\ lastOp = "init"
    /\ DOMAIN environ = {}
    /\ settings.environment = "development"
    /\ settings.debug_mode
    /\ settings.log_level = 10
    /\ Len(settings.enabled_platforms.v) = 3

\* C10: every validate() call emits exactly one diagnostic: a call that
\* returns False one error and the file is not probed; a call that returns
\* True one credentials diagnostic, info if the file exists, else warning.
C10_ExactlyOneDiagnostic ==
    lastOp = "validate" =>
        /\ Len(log) = 1
        /\ returned = "False" => (log[1].level = "error" /\ ~probed)
        /\ returned = "True" =>
              /\ probed
              /\ log[1].level =
                    (IF settings.firebase.credentials_path.v \in files
                     THEN "info" ELSE "warning")

\* a rejected object whose credentials file exists but was not looked at
C10_Witness ==
    /\ lastOp = "validate"
    /\ WellFormed
    /\ returned = "False"
    /\ settings.firebase.credentials_path.v \in files
    /\ log = <<Diag("error", "Need at least 2 platforms for optimization")>>

Done(t) == pc[t] = "done"

\* C3: with callers on threads at most one FirebaseManager object is ever
\* created and _initialize_firebase runs at most once.
C3_InitializeOnce == objects <= 1 /\ initCalls <= 1

\* C4: with callers one after the other every finished acquisition holds
\* the one instance and its connection, and once an acquisition has
\* finished no later step runs _initialize_firebase or changes _instance,
\* _db or _initialized.
C4_SequentialSameInstance ==
    /\ [](\A t \in Callers : Done(t) =>
            /\ self[t] = instance
            /\ objects = 1
            /\ initCalls = 1
            /\ \A u \in Callers : Done(u) => db[self[u]] = db[self[t]])
    /\ [][(\E t \in Callers : Done(t)) =>
            /\ instance' = instance
            /\ objects' = objects
            /\ db' = db
            /\ initialized' = initialized
            /\ initCalls' = initCalls]_vars

\* every caller has finished its acquisition, on a live connection
C4_Witness ==
    /\ \A t \in Callers : Done(t) /\ self[t] = 1
    /\ db[1] = 1
    /\ initialized[1]

\* C6: a construction whose initialization failed leaves the manager not
\* connected: no handle in _db and not marked initialized.
C6_FailedInitLeavesNotConnected ==
    \A t \in Callers :
        (Done(t) /\ self[t] \in initFailed) =>
            (db[self[t]] = 0 /\ ~initialized[self[t]])
====
